---- MODULE Spec2Model ----
(***************************************************************************)
(* Model of the WhatsApp expense tracker (src/app.py): the webhook handler *)
(* with its registration, lookup, amount extraction, categorisation and    *)
(* persistence steps, over the two SQLite tables `partners` and `expenses`,*)
(* and the two pages that read table `expenses`.                           *)
(*                                                                         *)
(* Text is modelled as a sequence of one-character strings, so that        *)
(* strip, lower, startswith, split and the regular expressions of          *)
(* extract_amount are computed character by character.  The rupee sign is  *)
(* the one-element text <<RUPEE>>.  Amounts are the float values of the    *)
(* code counted in hundredths (float("12.50") is 1250).  A Python value    *)
(* that may be None is a set with at most one element ({} is None).        *)
(*                                                                         *)
(* Characters outside ASCII are named by code point or by class.           *)
(*                                                                         *)
(* Five specifications.  SpecText is extract_amount and detect_category    *)
(* called on their own.  The other four are the threaded server            *)
(* (app.run): requests are handled side by side, a thread takes a step at  *)
(* each statement that touches the database, and the connections meet at   *)
(* the locks of the database file.  They differ in the messages sent:      *)
(* SpecConcurrent has registrations and an expense, SpecExpenses expense   *)
(* messages with and without an amount, SpecCommands the command word in   *)
(* its forms, SpecAttempts the command word, a word that begins with its   *)
(* letters, an expense and a message without an amount.  A run in which    *)
(* every request is answered before the next one arrives is one of their   *)
(* behaviours.                                                             *)
(***************************************************************************)
EXTENDS Integers, Sequences, FiniteSets, TLC

(***************************************************************************)
(* Characters and the character classes of Python's re module and str      *)
(* methods, which work on Unicode text (the patterns are str patterns      *)
(* compiled without re.ASCII).  An ASCII character is itself.  A character *)
(* outside ASCII that the code singles out is named by its code point.     *)
(* The other characters outside ASCII are told apart by the code only      *)
(* through their class (decimal digit of some value, word character,       *)
(* cased or not), so one token stands for every character of a class.      *)
(***************************************************************************)
RUPEE == "RUPEE"

UpperLetters ==
  <<"A","B","C","D","E","F","G","H","I","J","K","L","M",
    "N","O","P","Q","R","S","T","U","V","W","X","Y","Z">>

LowerLetters ==
  <<"a","b","c","d","e","f","g","h","i","j","k","l","m",
    "n","o","p","q","r","s","t","u","v","w","x","y","z">>

Range(s) == { s[i] : i \in DOMAIN s }

AsciiDigits == <<"0","1","2","3","4","5","6","7","8","9">>

\* the decimal digits outside ASCII (category Nd: Devanagari, Arabic-Indic,
\* fullwidth, ...): NonAsciiDigits[v + 1] stands for the digit of value v in
\* any of these scripts
NonAsciiDigits == <<"Nd0","Nd1","Nd2","Nd3","Nd4","Nd5","Nd6","Nd7","Nd8","Nd9">>

\* \d
Digits == Range(AsciiDigits) \cup Range(NonAsciiDigits)

\* the whitespace characters other than space, \t, \n, \r and \f: VT, the
\* separators FS, GS, RS and US, NEL, the no-break space and the Unicode spaces
OtherWhitespace ==
  { "U+000B", "U+001C", "U+001D", "U+001E", "U+001F", "U+0085", "U+00A0",
    "U+1680", "U+2000", "U+2001", "U+2002", "U+2003", "U+2004", "U+2005",
    "U+2006", "U+2007", "U+2008", "U+2009", "U+200A", "U+2028", "U+2029",
    "U+202F", "U+205F", "U+3000" }

\* \s, and the characters str.strip() and str.split() treat as whitespace
\* (str.isspace)
Whitespace == {" ", "\t", "\n", "\r", "\f"} \cup OtherWhitespace

\* the Kelvin sign, a letter whose lower-case form is the ASCII letter k
KELVIN == "U+212A"

\* the capital I with a dot above, a letter whose lower-case form is the two
\* characters i and COMBINING_DOT
I_DOT == "U+0130"

\* the combining dot above: no word character, no whitespace
COMBINING_DOT == "U+0307"

\* any other word character outside ASCII that str.lower() changes (as the
\* letter E with an acute accent); its lower-case form is a WORD_OTHER
WORD_UPPER == "WORD_UPPER"

\* any word character outside ASCII that str.lower() leaves alone: lower-case
\* and uncased letters, and the numeric characters that are no decimal digits
WORD_OTHER == "WORD_OTHER"

\* a character outside ASCII that is no word character and that str.lower()
\* changes (the circled capital letters); its lower-case form is a SYMBOL_OTHER
SYMBOL_UPPER == "SYMBOL_UPPER"

\* any other character outside ASCII: no word character, no whitespace, left
\* alone by str.lower() (punctuation, symbols other than the rupee sign)
SYMBOL_OTHER == "SYMBOL_OTHER"

\* \w : letters, digits and the underscore, of any script (the rupee sign is
\* not a word character)
WordChars ==
  Range(UpperLetters) \cup Range(LowerLetters) \cup Digits \cup {"_"}
    \cup { KELVIN, I_DOT, WORD_UPPER, WORD_OTHER }

\* [\d,]
NumChars == Digits \cup {","}

\* the value float() gives a decimal digit
DigitValue(c) ==
  (CHOOSE v \in 1..10 : AsciiDigits[v] = c \/ NonAsciiDigits[v] = c) - 1

(***************************************************************************)
(* str methods used by the handler.                                        *)
(***************************************************************************)
\* the lower-case form of one character: one character, or two for I_DOT
LowerChar(c) ==
  IF \E i \in DOMAIN UpperLetters : UpperLetters[i] = c
    THEN << LowerLetters[CHOOSE i \in DOMAIN UpperLetters : UpperLetters[i] = c] >>
  ELSE IF c = KELVIN       THEN << "k" >>
  ELSE IF c = I_DOT        THEN << "i", COMBINING_DOT >>
  ELSE IF c = WORD_UPPER   THEN << WORD_OTHER >>
  ELSE IF c = SYMBOL_UPPER THEN << SYMBOL_OTHER >>
  ELSE << c >>

RECURSIVE LowerFrom(_, _)
LowerFrom(s, i) ==
  IF i > Len(s) THEN <<>> ELSE LowerChar(s[i]) \o LowerFrom(s, i + 1)

\* str.lower()
lower(s) ==
  IF \A i \in 1..Len(s) : s[i] # I_DOT
    THEN [i \in 1..Len(s) |-> LowerChar(s[i])[1]]
    ELSE LowerFrom(s, 1)

\* str.strip(): leading and trailing whitespace removed
strip(s) ==
  LET keep == { i \in 1..Len(s) : s[i] \notin Whitespace }
  IN  IF keep = {} THEN <<>>
      ELSE LET first == CHOOSE i \in keep : \A j \in keep : i <= j
               last  == CHOOSE i \in keep : \A j \in keep : j <= i
           IN  SubSeq(s, first, last)

\* str.startswith(prefix)
startswith(s, prefix) ==
  /\ Len(s) >= Len(prefix)
  /\ SubSeq(s, 1, Len(prefix)) = prefix

\* str.replace(',', ''): every occurrence of the character removed
RemoveChar(s, c) == SelectSeq(s, LAMBDA x : x # c)

\* the first position >= i of s that holds no whitespace (Len(s)+1 if none)
SkipWhitespace(s, i) ==
  LET stop == { j \in i..Len(s) : s[j] \notin Whitespace }
  IN  IF stop = {} THEN Len(s) + 1
      ELSE CHOOSE j \in stop : \A k \in stop : j <= k

\* the first position >= i of s that holds whitespace (Len(s)+1 if none)
SkipToken(s, i) ==
  LET stop == { j \in i..Len(s) : s[j] \in Whitespace }
  IN  IF stop = {} THEN Len(s) + 1
      ELSE CHOOSE j \in stop : \A k \in stop : j <= k

\* str.split(maxsplit=1): the first whitespace-separated token and, when
\* something other than whitespace follows it, the rest of the text
split_maxsplit1(s) ==
  LET b == SkipWhitespace(s, 1)
      e == SkipToken(s, b)
      r == SkipWhitespace(s, e)
  IN  IF b > Len(s) THEN <<>>
      ELSE IF r > Len(s) THEN << SubSeq(s, b, e - 1) >>
      ELSE << SubSeq(s, b, e - 1), SubSeq(s, r, Len(s)) >>

(***************************************************************************)
(* extract_amount: five regular expressions tried in order with re.search  *)
(* on the lower-cased message.  Match<k>At(t, i) is the text of group 1 of *)
(* the match of pattern k that starts at position i, as a set: {} when the *)
(* pattern does not match there.  The quantifiers are greedy, and where    *)
(* backtracking can change the outcome (patterns 4 and 5) every shorter    *)
(* alternative is tried in the engine's order of preference.               *)
(***************************************************************************)
\* the end (exclusive) of the longest run of [\d,] that starts at i
RunEnd(t, i) ==
  LET stop == { j \in i..Len(t) : t[j] \notin NumChars }
  IN  IF stop = {} THEN Len(t) + 1
      ELSE CHOOSE j \in stop : \A k \in stop : j <= k

\* (?:\.\d{2}) matches at position e
HasFraction(t, e) ==
  /\ e + 2 <= Len(t)
  /\ t[e] = "."
  /\ t[e + 1] \in Digits
  /\ t[e + 2] \in Digits

\* ([\d,]+(?:\.\d{2})?) at the end of a pattern, matched at position j:
\* the longest run, and the fraction when one follows
NumberAt(t, j) ==
  IF j > Len(t) \/ t[j] \notin NumChars THEN {}
  ELSE LET e == RunEnd(t, j)
       IN  { SubSeq(t, j, IF HasFraction(t, e) THEN e + 2 ELSE e - 1) }

\* the literal text w occurs in t at position i
LiteralAt(t, i, w) ==
  /\ i >= 1
  /\ i + Len(w) - 1 <= Len(t)
  /\ SubSeq(t, i, i + Len(w) - 1) = w

\* r'₹\s*([\d,]+(?:\.\d{2})?)'
Match1At(t, i) ==
  IF LiteralAt(t, i, <<RUPEE>>)
    THEN NumberAt(t, SkipWhitespace(t, i + 1))
    ELSE {}

\* r'rs\.?\s*([\d,]+(?:\.\d{2})?)' : the optional dot is taken when present,
\* and given back when no number follows it
Match2At(t, i) ==
  IF ~LiteralAt(t, i, <<"r","s">>) THEN {}
  ELSE LET withDot == IF LiteralAt(t, i + 2, <<".">>)
                        THEN NumberAt(t, SkipWhitespace(t, i + 3))
                        ELSE {}
       IN  IF withDot # {} THEN withDot
           ELSE NumberAt(t, SkipWhitespace(t, i + 2))

\* r'inr\s*([\d,]+(?:\.\d{2})?)'
Match3At(t, i) ==
  IF LiteralAt(t, i, <<"i","n","r">>)
    THEN NumberAt(t, SkipWhitespace(t, i + 3))
    ELSE {}

\* (?:rs|rupees|inr|₹) matches at position j
CurrencyWordAt(t, j) ==
  \/ LiteralAt(t, j, <<"r","s">>)
  \/ LiteralAt(t, j, <<"r","u","p","e","e","s">>)
  \/ LiteralAt(t, j, <<"i","n","r">>)
  \/ LiteralAt(t, j, <<RUPEE>>)

\* r'([\d,]+(?:\.\d{2})?)\s*(?:rs|rupees|inr|₹)' : among the ways to end the
\* group so that whitespace and a currency word follow, the engine takes the
\* longest run, and for that run the fraction before no fraction
Match4At(t, i) ==
  IF i > Len(t) \/ t[i] \notin NumChars THEN {}
  ELSE LET ends == { k \in (i + 1)..RunEnd(t, i) :
                       \/ HasFraction(t, k) /\ CurrencyWordAt(t, SkipWhitespace(t, k + 3))
                       \/ CurrencyWordAt(t, SkipWhitespace(t, k)) }
       IN  IF ends = {} THEN {}
           ELSE LET k == CHOOSE x \in ends : \A y \in ends : y <= x
                IN  IF HasFraction(t, k) /\ CurrencyWordAt(t, SkipWhitespace(t, k + 3))
                      THEN { SubSeq(t, i, k + 2) }
                      ELSE { SubSeq(t, i, k - 1) }

\* position q of t holds a word character
IsWordAt(t, q) == q \in 1..Len(t) /\ t[q] \in WordChars

\* \b between positions p-1 and p
WordBoundary(t, p) == IsWordAt(t, p - 1) # IsWordAt(t, p)

\* r'\b([\d,]+)\b' : the longest run of [\d,] from i that ends at a boundary
Match5At(t, i) ==
  IF i > Len(t) \/ t[i] \notin NumChars \/ ~WordBoundary(t, i) THEN {}
  ELSE LET ends == { k \in (i + 1)..RunEnd(t, i) : WordBoundary(t, k) }
       IN  IF ends = {} THEN {}
           ELSE { SubSeq(t, i, (CHOOSE x \in ends : \A y \in ends : y <= x) - 1) }

\* the list `patterns`, by index
MatchAt(p, t, i) ==
  CASE p = 1 -> Match1At(t, i)
    [] p = 2 -> Match2At(t, i)
    [] p = 3 -> Match3At(t, i)
    [] p = 4 -> Match4At(t, i)
    [] p = 5 -> Match5At(t, i)

NumPatterns == 5

\* re.search(p, t).group(1): the match with the leftmost start, {} for no match
search(p, t) ==
  LET starts == { i \in 1..Len(t) : MatchAt(p, t, i) # {} }
  IN  UNION { MatchAt(p, t, i) : i \in { k \in starts : \A j \in starts : k <= j } }

RECURSIVE DigitsValue(_)
DigitsValue(s) ==
  IF s = <<>> THEN 0
  ELSE DigitsValue(SubSeq(s, 1, Len(s) - 1)) * 10 + DigitValue(s[Len(s)])

\* float(s) for the texts group 1 can hold once the commas are removed:
\* digits, optionally followed by a dot and two digits.  The value in
\* hundredths, or {} where float raises ValueError (no digit at all).
float(s) ==
  LET dots == { i \in 1..Len(s) : s[i] = "." }
  IN  IF dots = {}
        THEN IF s = <<>> THEN {} ELSE { DigitsValue(s) * 100 }
        ELSE LET d == CHOOSE i \in dots : TRUE
             IN  { DigitsValue(SubSeq(s, 1, d - 1)) * 100
                     + DigitsValue(SubSeq(s, d + 1, Len(s))) }

\* the loop over `patterns` from index p on: the first pattern that matches
\* and whose group converts decides; a group that does not convert (except:
\* continue) hands over to the next pattern; None after the last
RECURSIVE ExtractFrom(_, _)
ExtractFrom(p, t) ==
  IF p > NumPatterns THEN {}
  ELSE LET m == search(p, t)
           v == UNION { float(RemoveChar(g, ",")) : g \in m }
       IN  IF m # {} /\ v # {} THEN v ELSE ExtractFrom(p + 1, t)

extract_amount(msg) == ExtractFrom(1, lower(msg))

(***************************************************************************)
(* detect_category: the keyword table in the order of the dict literal.    *)
(***************************************************************************)
CATEGORIES ==
  << [cat |-> "rent", keywords |-> <<
        <<"r","e","n","t">>,
        <<"r","e","n","t","a","l">>,
        <<"o","f","f","i","c","e"," ","r","e","n","t">>,
        <<"s","h","o","p"," ","r","e","n","t">>,
        <<"l","e","a","s","e">>>>],
     [cat |-> "travel", keywords |-> <<
        <<"t","r","a","v","e","l">>,
        <<"a","u","t","o">>,
        <<"c","a","b">>,
        <<"u","b","e","r">>,
        <<"o","l","a">>,
        <<"f","u","e","l">>,
        <<"p","e","t","r","o","l">>,
        <<"d","i","e","s","e","l">>,
        <<"t","i","c","k","e","t">>,
        <<"t","r","a","i","n">>,
        <<"b","u","s">>,
        <<"f","l","i","g","h","t">>,
        <<"m","e","t","r","o">>>>],
     [cat |-> "food", keywords |-> <<
        <<"f","o","o","d">>,
        <<"l","u","n","c","h">>,
        <<"d","i","n","n","e","r">>,
        <<"b","r","e","a","k","f","a","s","t">>,
        <<"t","e","a">>,
        <<"c","o","f","f","e","e">>,
        <<"s","n","a","c","k","s">>,
        <<"m","e","a","l">>,
        <<"r","e","s","t","a","u","r","a","n","t">>,
        <<"h","o","t","e","l">>,
        <<"e","a","t","i","n","g">>,
        <<"t","i","f","f","i","n">>>>],
     [cat |-> "partner_loan", keywords |-> <<
        <<"l","o","a","n">>,
        <<"l","e","n","t">>,
        <<"l","e","n","d","i","n","g">>,
        <<"b","o","r","r","o","w","e","d">>,
        <<"g","a","v","e"," ","t","o"," ","c","o","m","p","a","n","y">>,
        <<"l","e","n","t"," ","t","o"," ","c","o","m","p","a","n","y">>,
        <<"p","a","r","t","n","e","r"," ","l","o","a","n">>,
        <<"p","e","r","s","o","n","a","l"," ","m","o","n","e","y">>>>],
     [cat |-> "business_purchase", keywords |-> <<
        <<"s","t","o","c","k">>,
        <<"i","n","v","e","n","t","o","r","y">>,
        <<"p","u","r","c","h","a","s","e">>,
        <<"b","o","u","g","h","t">>,
        <<"p","r","o","d","u","c","t">>,
        <<"g","o","o","d","s">>,
        <<"m","a","t","e","r","i","a","l">>,
        <<"s","u","p","p","l","i","e","s">>,
        <<"w","h","o","l","e","s","a","l","e">>>>],
     [cat |-> "client_acquisition", keywords |-> <<
        <<"c","l","i","e","n","t">>,
        <<"c","u","s","t","o","m","e","r">>,
        <<"a","c","q","u","i","s","i","t","i","o","n">>,
        <<"g","i","f","t">>,
        <<"m","e","e","t","i","n","g">>,
        <<"c","o","m","m","i","s","s","i","o","n">>,
        <<"m","a","r","k","e","t","i","n","g">>,
        <<"p","r","o","m","o","t","i","o","n">>,
        <<"b","u","s","i","n","e","s","s"," ","d","e","v","e","l","o","p","m","e","n","t">>>>] >>

UNCATEGORIZED == "uncategorized"

\* kw in msg : kw occurs somewhere in msg
Contains(msg, kw) == \E i \in 1..(Len(msg) - Len(kw) + 1) : LiteralAt(msg, i, kw)

\* mutant of detect_category: the message is searched as it was sent, not
\* lower-cased
detect_category_case_sensitive(msg) ==
  LET hits == { c \in DOMAIN CATEGORIES :
                  \E k \in DOMAIN CATEGORIES[c].keywords :
                     Contains(msg, CATEGORIES[c].keywords[k]) }
  IN  IF hits = {} THEN UNCATEGORIZED
      ELSE CATEGORIES[CHOOSE c \in hits : \A d \in hits : c <= d].cat

\* the first category, in table order, one of whose keywords occurs in the
\* lower-cased message
detect_category(msg) ==
  LET m    == lower(msg)
      hits == { c \in DOMAIN CATEGORIES :
                  \E k \in DOMAIN CATEGORIES[c].keywords :
                     Contains(m, CATEGORIES[c].keywords[k]) }
  IN  IF hits = {} THEN UNCATEGORIZED
      ELSE CATEGORIES[CHOOSE c \in hits : \A d \in hits : c <= d].cat

(***************************************************************************)
(* The database: the table `partners` is a set of rows (phone, name), the  *)
(* table `expenses` a sequence of rows whose AUTOINCREMENT id is the       *)
(* position (no row is ever deleted).  The id column of `partners` is read *)
(* nowhere and is left out.                                                *)
(***************************************************************************)
VARIABLES
  partners,   \* the rows of table partners (init_db, lines 30-34)
  expenses,   \* the rows of table expenses, in id order (init_db, lines 21-29)
  parsed,     \* what the handler reads off each Body value, computed once; it
              \* never changes
  text,       \* the argument msg of a call of extract_amount or detect_category
              \* made on its own (lines 49 and 66)
  extracted,  \* what extract_amount(text) returned, once it has been called
  classified, \* what detect_category(text) returned, once it has been called
  inflight,   \* the POST /webhook requests the server is handling side by side
              \* or has answered, in the order they arrived: for each its From
              \* and Body values, the line its thread has reached, the locals
              \* it holds and the reply it built
  pages       \* the GET / and GET /export requests in the middle of a read: how
              \* many are about to fetch the rows of a SELECT, by the line of
              \* the fetch in dashboard() and export()

vars == << partners, expenses, parsed, text, extracted, classified, inflight, pages >>

\* mutant of InsertOrReplace: the row is added and the old row stays
InsertKeepingOld(table, phone, name) ==
  table \cup { [phone |-> phone, name |-> name] }

\* mutant of InsertOrReplace: the new row replaces every row of the table
InsertReplacingTable(table, phone, name) ==
  { [phone |-> phone, name |-> name] }

\* 'INSERT OR REPLACE INTO partners (phone, name)': phone is UNIQUE, so the
\* row that holds the phone gives way to the new row
InsertOrReplace(table, phone, name) ==
  { r \in table : r.phone # phone } \cup { [phone |-> phone, name |-> name] }

\* 'SELECT name FROM partners WHERE phone=?' and fetchone:
\* r['name'] if r else None
SelectName(table, phone) ==
  LET rows == { r \in table : r.phone = phone }
  IN  IF rows = {} THEN {} ELSE { (CHOOSE r \in rows : TRUE).name }

\* mutant of get_partner: the SELECT has no WHERE clause, any row answers
get_partner_without_where(table, phone) ==
  IF table = {} THEN {} ELSE { (CHOOSE r \in table : TRUE).name }

\* get_partner: the name of the row with the phone, None where there is
\* none.  Nothing is caught: a SELECT that raises leaves get_partner, and
\* webhook, as it is (SelectLocked)
get_partner(table, phone) == SelectName(table, phone)

\* mutant of register_partner: a plain INSERT, which the UNIQUE phone of an
\* existing row turns into a caught IntegrityError
register_partner_plain_insert(table, phone, name, fault) ==
  IF fault = "locked" \/ \E r \in table : r.phone = phone
    THEN [raised |-> FALSE, ret |-> FALSE, table |-> table]
    ELSE [raised |-> FALSE, ret |-> TRUE,
          table |-> table \cup { [phone |-> phone, name |-> name] }]

\* mutant of register_partner: no try/except around the INSERT and the
\* commit
register_partner_uncaught(table, phone, name, fault) ==
  IF fault = "locked"
    THEN [raised |-> TRUE,  ret |-> FALSE, table |-> table]
    ELSE [raised |-> FALSE, ret |-> TRUE,
          table |-> { r \in table : r.phone # phone }
                      \cup { [phone |-> phone, name |-> name] }]

\* register_partner: `fault` says what the database did with the INSERT and
\* the commit, "none" when they ran, "locked" when one of them raised
\* OperationalError('database is locked'); that is caught, nothing is
\* committed and False is returned
register_partner(table, phone, name, fault) ==
  IF fault = "locked"
    THEN [raised |-> FALSE, ret |-> FALSE, table |-> table]
    ELSE [raised |-> FALSE, ret |-> TRUE, table |-> InsertOrReplace(table, phone, name)]

\* mutant of save_expense: the description is stored lower-cased
save_expense_lowercased(table, amount, category, description, partner_name, partner_phone) ==
  [ret   |-> Len(table) + 1,
   table |-> Append(table, [amount        |-> amount,
                            category      |-> category,
                            description   |-> lower(description),
                            partner_name  |-> partner_name,
                            partner_phone |-> partner_phone])]

\* save_expense: one row appended, its id returned.  Nothing is caught: an
\* INSERT or a commit that raises leaves save_expense, and webhook, as it
\* is, and the table as it was (InsertExpenseLocked, CommitExpenseLocked)
save_expense(table, amount, category, description, partner_name, partner_phone) ==
  [ret   |-> Len(table) + 1,
   table |-> Append(table, [amount        |-> amount,
                            category      |-> category,
                            description   |-> description,
                            partner_name  |-> partner_name,
                            partner_phone |-> partner_phone])]

WHATSAPP == "whatsapp:"

(***************************************************************************)
(* The requests the model sends.                                           *)
(***************************************************************************)
Froms ==
  { << WHATSAPP, "+91-1" >>,      \* 'whatsapp:+91-1', as Twilio sends it
    << "+91-2" >> }               \* a From value without the prefix

\* registrations under two names, and an expense
ConcurrentBodies ==
  { <<"r","e","g","i","s","t","e","r"," ","A","l">>,                          \* register Al
    <<"U+000B","R","E","G","I","S","T","E","R","\r"," ","A","l"," ","B","o","U+00A0">>,  \* REGISTER Al Bo, padded and split by VT, CR, space, no-break space
    <<"r","e","n","t"," ","5","0">> }                                         \* rent 50

\* expense messages: with an amount, with the amount 0, without a number
ExpenseBodies ==
  { <<"\t","T","e","a"," ","1","2",".","5","0","\r","\n">>,   \* Tea 12.50 after a tab, before CR LF
    <<"p","a","i","d","\f","Nd0">>,                            \* paid 0, after a form feed, the digit outside ASCII
    <<"l","u","n","c","h">> }                                  \* no number

\* the command word with and without a name, a word that begins with its
\* letters, and a message with a lone comma (which the last pattern of
\* extract_amount matches and float() turns down)
CommandBodies ==
  { <<"r","e","g","i","s","t","e","r"," ","A","l">>,           \* register Al
    <<"r","e","g","i","s","t","e","r">>,                       \* no name
    <<"r","e","g","i","s","t","e","r","e","d"," ","5","0">>,   \* registered 50
    <<"a",",","b">> }                                          \* a lone comma

\* what a registered sender may send: the command word with a name, a word
\* that begins with its letters, an expense, and a message without an amount
AttemptBodies ==
  { <<"r","e","g","i","s","t","e","r"," ","A","l">>,           \* register Al
    <<"r","e","g","i","s","t","e","r","e","d"," ","5","0">>,   \* registered 50
    <<"r","e","n","t"," ","5","0">>,                           \* rent 50
    <<"a",",","b">> }                                          \* a lone comma

Bodies == ConcurrentBodies \cup ExpenseBodies \cup CommandBodies \cup AttemptBodies

(***************************************************************************)
(* The handler.  A reply is the template the handler filled in, with the   *)
(* values it put into it; "error" stands for an exception leaving webhook  *)
(* (Flask answers 500 and no reply is sent).                               *)
(***************************************************************************)
Reply(template, name, eid, amount, category) ==
  [template |-> template, name |-> name, eid |-> eid,
   amount |-> amount, category |-> category]

Plain(template) == Reply(template, <<>>, 0, 0, "")

REGISTER == <<"r","e","g","i","s","t","e","r">>

\* request.values.get('From', '').replace('whatsapp:', ''): a From value is a
\* sequence of pieces, the piece 'whatsapp:' wherever it occurs is dropped
SenderOf(from) == SelectSeq(from, LAMBDA piece : piece # WHATSAPP)

\* `if not partner` : None, and the empty name
NotPartner(partner) == partner = {} \/ partner = { <<>> }

\* mutant of NotAmount: `if amount is None`
NotAmountNoneOnly(amount) == amount = {}

\* `if not amount` : None, and 0.0
NotAmount(amount) == amount = {} \/ amount = { 0 }

\* mutant of HasName: the name is taken without the test of len(parts)
HasNameUntested(parts) == TRUE

\* `if len(parts) > 1`
HasName(parts) == Len(parts) > 1

\* What the handler computes from the Body value alone, tabulated per body of
\* the model: msg (line 109), the test of line 116, the split of line 117,
\* the name of line 119 (<<>> where the split gave no second part and line
\* 119 is not reached), extract_amount(msg) (line 135) and
\* detect_category(msg) (line 140).  The variable `parsed` holds this table,
\* so that it is computed once and not at every request.
Parsed ==
  [ body \in Bodies |->
      LET msg   == strip(body)
          parts == split_maxsplit1(msg)
      IN  [msg             |-> msg,
           is_registration |-> startswith(lower(msg), REGISTER),
           parts           |-> parts,
           name            |-> IF Len(parts) > 1 THEN strip(parts[2]) ELSE <<>>,
           amount          |-> extract_amount(msg),
           category        |-> detect_category(msg)] ]

\* lines 120-123: the reply to a registration, by what register_partner
\* returned
RegistrationReply(reg, name) ==
  IF reg.raised THEN Plain("error")
  ELSE IF reg.ret THEN Reply("welcome", name, 0, 0, "")
  ELSE Plain("registration_failed")

\* extract_amount has not been called
NotExtracted == [done |-> FALSE, value |-> {}]

\* detect_category has not been called
NotClassified == [done |-> FALSE, value |-> ""]

(***************************************************************************)
(* extract_amount and detect_category called on their own.  The texts they *)
(* are called with: a number that carries a currency marker next to one    *)
(* that carries none, in either order; a lone number in the forms the      *)
(* number grammar allows; every keyword of the table; and whole messages.  *)
(* With each text goes the value a reader takes from it, in hundredths.    *)
(***************************************************************************)
\* numbers with a currency marker: symbol, Rs, Rs. or INR before, or rs,
\* rupees, inr or the symbol after
MarkedNumbers ==
  { [text |-> <<RUPEE,"5","0","0">>, value |-> 50000],
    [text |-> <<RUPEE," ","5",",","0","0","0">>, value |-> 500000],
    [text |-> <<"r","s"," ","5","0","0">>, value |-> 50000],
    [text |-> <<"R","s",".","5","0","0">>, value |-> 50000],
    [text |-> <<"r","s","."," ","1","2",".","5","0">>, value |-> 1250],
    [text |-> <<"I","N","R"," ","5","0","0">>, value |-> 50000],
    [text |-> <<"5","0","0"," ","r","s">>, value |-> 50000],
    [text |-> <<"5","0","0"," ","R","u","p","e","e","s">>, value |-> 50000],
    [text |-> <<"5","0","0","i","n","r">>, value |-> 50000],
    [text |-> <<"5","0","0",RUPEE>>, value |-> 50000],
    [text |-> <<"5",",","0","0","0",".","5","0"," ","r","u","p","e","e","s">>, value |-> 500050],
    [text |-> <<RUPEE,"U+00A0","Nd5","Nd0","Nd0">>, value |-> 50000],
    [text |-> <<"Nd5","0","0","\r","R","S">>, value |-> 50000] }

\* numbers without a marker, alone or with a word that is no marker
BareNumbers ==
  { [text |-> <<"1","2">>, value |-> 1200],
    [text |-> <<"R","o","o","m"," ","1","2">>, value |-> 1200],
    [text |-> <<"2"," ","d","a","y","s">>, value |-> 200],
    [text |-> <<"c","h","a","i","r","s"," ","1","2">>, value |-> 1200],
    [text |-> <<"Nd1","Nd2">>, value |-> 1200] }

\* what stands between the two numbers
Joiners ==
  { <<" ">>,
    <<","," ">>,
    <<","," ","p","a","i","d"," ">> }

\* a marked and a bare number in one text, in either order, and the bare
\* numbers alone; `marked` says whether a marked number is in the text, and
\* `value` is the marked number where there is one, else the bare number
PrioritySamples ==
  { [text |-> b.text \o j \o m.text, marked |-> TRUE, value |-> m.value] :
      b \in BareNumbers, j \in Joiners, m \in MarkedNumbers }
  \cup
  { [text |-> m.text \o j \o b.text, marked |-> TRUE, value |-> m.value] :
      m \in MarkedNumbers, j \in Joiners, b \in BareNumbers }
  \cup
  { [text |-> b.text, marked |-> FALSE, value |-> b.value] : b \in BareNumbers }

\* lone numbers without a marker: with and without thousands separators,
\* with and without a fraction of two digits
LoneNumbers ==
  { [text |-> <<"1","2",".","5","0">>, value |-> 1250],
    [text |-> <<"5",",","0","0","0">>, value |-> 500000],
    [text |-> <<"5","0","0","0">>, value |-> 500000],
    [text |-> <<"1",",","2","3","4",".","5","6">>, value |-> 123456],
    [text |-> <<"0",".","0","5">>, value |-> 5],
    [text |-> <<"7">>, value |-> 700],
    [text |-> <<"Nd5","Nd0","Nd0">>, value |-> 50000],
    [text |-> <<"Nd1","2",".","Nd5","0">>, value |-> 1250] }

LUNCH == <<"l","u","n","c","h"," ">>

PAID == <<" ","p","a","i","d">>

\* texts whose only number is a lone number
NumberSamples ==
  { [text |-> before \o n.text \o after, value |-> n.value] :
      before \in { <<>>, LUNCH }, n \in LoneNumbers, after \in { <<>>, PAID } }

\* each keyword of the table as a text of its own, with its category
KeywordSamples ==
  UNION { { [text |-> CATEGORIES[c].keywords[k], cat |-> CATEGORIES[c].cat] :
              k \in DOMAIN CATEGORIES[c].keywords } : c \in DOMAIN CATEGORIES }

\* whole messages, some with keywords of several categories or in upper
\* case, some with letters, digits and whitespace outside ASCII
Messages ==
  { <<"P","a","i","d"," ","5","0","0","0"," ","r","e","n","t">>,
    <<"C","l","i","e","n","t"," ","d","i","n","n","e","r"," ","m","e","e","t","i","n","g">>,
    <<"x","y","z">>,
    <<>>,
    <<"L","U","N","C","H"," ","3","0","0">>,
    <<"B","o","u","g","h","t"," ","s","t","o","c","k"," ","5","0","0","0">>,
    <<"L","e","n","t"," ","1","0","0","0","0"," ","t","o"," ","c","o","m","p","a","n","y">>,
    <<"A","u","t","o"," ","2","0","0">>,
    <<"C","l","i","e","n","t"," ","g","i","f","t"," ","1","0","0","0">>,
    <<"B","u","s","i","n","e","s","s"," ","D","e","v","e","l","o","p","m","e","n","t"," ","5","0","0">>,
    <<"n","o"," ","n","u","m","b","e","r","s"," ","h","e","r","e">>,
    <<"R","e","s","t","a","u","r","a","n","t","s">>,
    <<"h","o","t","e","l"," ","c","a","b">>,
    <<"G","i","f","t"," ","f","o","r"," ","C","U","S","T","O","M","E","R",","," ","T","i","f","f","i","n">>,
    <<WORD_UPPER,"5">>,
    <<"5",WORD_OTHER>>,
    <<"5",SYMBOL_OTHER," ",SYMBOL_UPPER,"7">>,
    <<"S","T","O","C",KELVIN,"\f","5","0","0">>,
    <<"T",I_DOT,"F","F","I","N"," ","Nd3","0">>,
    <<"r","e","n","t","U+2028","Nd5",",","Nd0","Nd0","Nd0","\r","\n">> }

Texts ==
  { s.text : s \in PrioritySamples } \cup { s.text : s \in NumberSamples }
    \cup { s.text : s \in KeywordSamples } \cup Messages

\* the handler's variables stay as init_db leaves them; one text is chosen
InitText ==
  /\ partners = {}
  /\ expenses = <<>>
  /\ parsed   = Parsed
  /\ text \in Texts
  /\ extracted  = NotExtracted
  /\ classified = NotClassified
  /\ inflight   = <<>>
  /\ pages      = [ line \in { 252, 266, 271, 283 } |-> 0 ]

\* amount = extract_amount(text)
ExtractAmount ==
  /\ ~extracted.done
  /\ extracted' = [done |-> TRUE, value |-> extract_amount(text)]
  /\ UNCHANGED << partners, expenses, parsed, text, classified, inflight, pages >>

\* category = detect_category(text)
DetectCategory ==
  /\ ~classified.done
  /\ classified' = [done |-> TRUE, value |-> detect_category(text)]
  /\ UNCHANGED << partners, expenses, parsed, text, extracted, inflight, pages >>

NextText == ExtractAmount \/ DetectCategory

SpecText == InitText /\ [][NextText]_vars

(***************************************************************************)
(* The threaded server (app.run, line 302): requests are handled side by   *)
(* side, each by a thread of its own, and every call of get_partner,       *)
(* register_partner, save_expense, dashboard and export opens a connection *)
(* of its own (get_db).  A thread takes a step of its own at each          *)
(* statement that touches the database; what lies between two such         *)
(* statements is local to it.  The connections share the database file     *)
(* through SQLite's locks.  A SELECT that returned a row keeps the read    *)
(* lock until its rows are fetched; one that found no row keeps nothing.   *)
(* An INSERT leaves its connection with an uncommitted write, and needs    *)
(* that no other connection has one.  A commit first takes the lock that   *)
(* keeps new readers and writers out, and then needs that no connection    *)
(* is in the middle of a read: while one is, the commit waits, and goes    *)
(* on once the read is over.  A statement that waits for its lock gives    *)
(* up after sqlite3's busy timeout of 5 seconds and raises                 *)
(* OperationalError('database is locked'): wherever the lock is taken,     *)
(* the statement either runs later, after the holder let go, or raises.    *)
(* A commit that raised leaves its connection with the lock that keeps     *)
(* new readers and writers out, until the connection is closed.  What a    *)
(* connection has written is seen by the others from its commit on.        *)
(***************************************************************************)
\* the most POST /webhook requests that arrive in one run
MaxRequests == 2

\* the most reads of GET / and GET /export requests in progress at one time
MaxPages == 1

\* the position of a thread: about to run the INSERT of register_partner,
\* between that INSERT and its commit, inside a commit that waits for a
\* read to end, between a commit that raised and the close of the finally
\* clause, about to run the SELECT of get_partner, between a SELECT that
\* returned a row and fetchone, about to run the INSERT of save_expense,
\* between that INSERT and its commit, inside a commit that waits, and
\* returned
Positions ==
  { "register", "partner_inserted", "partner_committing", "partner_failed",
    "lookup", "selected", "save", "expense_inserted", "expense_committing",
    "done" }

\* the SELECTs of dashboard() and export(), by line, and the fetches of the
\* rows they returned, each on the line after its SELECT
DashboardSelects == { 251, 265, 270 }

DashboardFetches == { 252, 266, 271 }

ExportSelects == { 282 }

ExportFetches == { 283 }

PageFetches == DashboardFetches \cup ExportFetches

\* the threads whose connection holds an uncommitted write
Writing ==
  { i \in DOMAIN inflight : inflight[i].pc \in { "partner_inserted", "expense_inserted" } }

\* the threads inside a commit that waits for a read to end
Committing ==
  { i \in DOMAIN inflight : inflight[i].pc \in { "partner_committing", "expense_committing" } }

\* the connections whose commit raised and that are not closed yet: that of
\* register_partner until its finally clause runs, that of save_expense,
\* which has no such clause, until the connection object is finalised
Stuck ==
  { i \in DOMAIN inflight : inflight[i].pc = "partner_failed" \/ inflight[i].open }

\* the threads in the middle of a read
Reading == { i \in DOMAIN inflight : inflight[i].pc = "selected" }

\* the lines at which a page request is in the middle of a read
PagesReading == { line \in PageFetches : pages[line] > 0 }

\* an INSERT gets its lock: no other connection holds a write, is inside a
\* commit or is left with a failed one
CanWrite == Writing \cup Committing \cup Stuck = {}

\* a SELECT gets its lock: no connection is inside a commit or is left with
\* a failed one
CanRead == Committing \cup Stuck = {}

\* a commit gets its lock: no other connection is in the middle of a read
CanCommit == Reading = {} /\ PagesReading = {}

\* mutant of PartnerArgument: the name is read from the table again when
\* the row is saved
PartnerReadAtSave(req) ==
  CHOOSE n \in SelectName(partners, SenderOf(req.From)) : TRUE

\* the argument `partner` of the save_expense call (line 141): the local the
\* thread got from its own get_partner call
PartnerArgument(req) == CHOOSE n \in req.partner : TRUE

\* a request arrives: lines 109-119 and 124-126, which touch no table.
\* `prior` (the sender's name in table partners as the request arrives),
\* `met` (the requests being handled as it arrives), `seen`, `current` and
\* `failed` are history the handler does not hold
Arrive(from, body) ==
  LET p     == parsed[body]
      named == HasName(p.parts)
  IN  /\ Len(inflight) < MaxRequests
      /\ inflight' = Append(inflight,
           [From    |-> from,
            Body    |-> body,
            pc      |-> IF p.is_registration
                          THEN IF named THEN "register" ELSE "done"
                          ELSE "lookup",
            partner |-> {},
            prior   |-> SelectName(partners, SenderOf(from)),
            seen    |-> {},
            current |-> {},
            met     |-> { i \in DOMAIN inflight : inflight[i].pc # "done" },
            failed  |-> "none",
            open    |-> FALSE,
            reply   |-> IF p.is_registration /\ ~named
                          THEN Plain("please_send_register")
                          ELSE Plain("none")])
      /\ UNCHANGED << partners, expenses, parsed, text, extracted, classified, pages >>

\* register_partner, line 89: the INSERT OR REPLACE gets its lock
InsertPartner(i) ==
  /\ inflight[i].pc = "register"
  /\ CanWrite
  /\ inflight' = [inflight EXCEPT ![i].pc = "partner_inserted"]
  /\ UNCHANGED << partners, expenses, parsed, text, extracted, classified, pages >>

\* register_partner, line 89, while its lock stays taken for the busy
\* timeout: the INSERT raises, the except clause returns False (lines
\* 92-95) and the handler answers with line 123
InsertPartnerLocked(i) ==
  LET req == inflight[i]
      reg == register_partner(partners, SenderOf(req.From), parsed[req.Body].name, "locked")
  IN  /\ req.pc = "register"
      /\ ~CanWrite
      /\ inflight' = [inflight EXCEPT
                        ![i].pc = "done",
                        ![i].failed = "insert",
                        ![i].reply = RegistrationReply(reg, parsed[req.Body].name)]
      /\ UNCHANGED << partners, expenses, parsed, text, extracted, classified, pages >>

\* register_partner, line 90, while another connection is in the middle of
\* a read: the commit has taken the lock that keeps new readers and
\* writers out, and waits
CommitPartnerWait(i) ==
  /\ inflight[i].pc = "partner_inserted"
  /\ ~CanCommit
  /\ inflight' = [inflight EXCEPT ![i].pc = "partner_committing"]
  /\ UNCHANGED << partners, expenses, parsed, text, extracted, classified, pages >>

\* register_partner, lines 90-95, and the reply of lines 120-126: the commit
\* gets its lock, at once or after it waited
CommitPartner(i) ==
  LET req  == inflight[i]
      name == parsed[req.Body].name
      reg  == register_partner(partners, SenderOf(req.From), name, "none")
  IN  /\ req.pc \in { "partner_inserted", "partner_committing" }
      /\ CanCommit
      /\ partners' = reg.table
      /\ inflight' = [inflight EXCEPT
                        ![i].pc = "done",
                        ![i].reply = RegistrationReply(reg, name)]
      /\ UNCHANGED << expenses, parsed, text, extracted, classified, pages >>

\* register_partner, line 90, while the read the commit waits for goes on
\* for the busy timeout: the commit raises
CommitPartnerLocked(i) ==
  /\ inflight[i].pc = "partner_committing"
  /\ ~CanCommit
  /\ inflight' = [inflight EXCEPT ![i].pc = "partner_failed", ![i].failed = "commit"]
  /\ UNCHANGED << partners, expenses, parsed, text, extracted, classified, pages >>

\* register_partner, lines 92-95, after the commit raised: the except clause
\* returns False, the close of the finally clause drops what the INSERT
\* wrote, and the handler answers with line 123
ClosePartner(i) ==
  LET req == inflight[i]
      reg == register_partner(partners, SenderOf(req.From), parsed[req.Body].name, "locked")
  IN  /\ req.pc = "partner_failed"
      /\ inflight' = [inflight EXCEPT
                        ![i].pc = "done",
                        ![i].reply = RegistrationReply(reg, parsed[req.Body].name)]
      /\ UNCHANGED << partners, expenses, parsed, text, extracted, classified, pages >>

\* get_partner, line 80: the thread's own read of table partners.  Where no
\* row is found nothing is left to fetch, the read is over, and the handler
\* answers with line 131
Select(i) ==
  LET req == inflight[i]
      got == get_partner(partners, SenderOf(req.From))
  IN  /\ req.pc = "lookup"
      /\ CanRead
      /\ inflight' = [inflight EXCEPT
                        ![i].partner = got,
                        ![i].seen    = SelectName(partners, SenderOf(req.From)),
                        ![i].pc      = IF got = {} THEN "done" ELSE "selected",
                        ![i].reply   = IF got = {} THEN Plain("register_first")
                                       ELSE Plain("none")]
      /\ UNCHANGED << partners, expenses, parsed, text, extracted, classified, pages >>

\* get_partner, line 80, while a connection inside a commit, or left with a
\* failed one, keeps readers out for the busy timeout: the SELECT raises,
\* nothing catches it
SelectLocked(i) ==
  /\ inflight[i].pc = "lookup"
  /\ ~CanRead
  /\ inflight' = [inflight EXCEPT
                    ![i].pc = "done",
                    ![i].failed = "select",
                    ![i].reply = Plain("error")]
      /\ UNCHANGED << partners, expenses, parsed, text, extracted, classified, pages >>

\* get_partner, lines 81-83, and lines 129-138: the row is fetched, the read
\* is over; then the tests of the partner and of the amount
Fetch(i) ==
  LET req == inflight[i]
  IN  /\ req.pc = "selected"
      /\ inflight' = [inflight EXCEPT
                        ![i].pc    = IF NotPartner(req.partner) \/ NotAmount(parsed[req.Body].amount)
                                       THEN "done" ELSE "save",
                        ![i].reply = IF NotPartner(req.partner) THEN Plain("register_first")
                                     ELSE IF NotAmount(parsed[req.Body].amount)
                                       THEN Plain("no_amount")
                                     ELSE Plain("none")]
      /\ UNCHANGED << partners, expenses, parsed, text, extracted, classified, pages >>

\* save_expense, line 100: the INSERT gets its lock
InsertExpense(i) ==
  /\ inflight[i].pc = "save"
  /\ CanWrite
  /\ inflight' = [inflight EXCEPT
                    ![i].pc = "expense_inserted",
                    ![i].current = SelectName(partners, SenderOf(inflight[i].From))]
  /\ UNCHANGED << partners, expenses, parsed, text, extracted, classified, pages >>

\* save_expense, line 100, while its lock stays taken for the busy timeout:
\* the INSERT raises, nothing catches it, no row is stored
InsertExpenseLocked(i) ==
  /\ inflight[i].pc = "save"
  /\ ~CanWrite
  /\ inflight' = [inflight EXCEPT
                    ![i].pc = "done",
                    ![i].failed = "insert",
                    ![i].reply = Plain("error")]
  /\ UNCHANGED << partners, expenses, parsed, text, extracted, classified, pages >>

\* save_expense, line 102, while another connection is in the middle of a
\* read: the commit has taken the lock that keeps new readers and writers
\* out, and waits
CommitExpenseWait(i) ==
  /\ inflight[i].pc = "expense_inserted"
  /\ ~CanCommit
  /\ inflight' = [inflight EXCEPT ![i].pc = "expense_committing"]
  /\ UNCHANGED << partners, expenses, parsed, text, extracted, classified, pages >>

\* save_expense, lines 102-105, and the reply of line 143: the commit gets
\* its lock, at once or after it waited
CommitExpense(i) ==
  LET req      == inflight[i]
      value    == CHOOSE v \in parsed[req.Body].amount : TRUE
      category == parsed[req.Body].category
      partner  == PartnerArgument(req)
      saved    == save_expense(expenses, value, category, parsed[req.Body].msg,
                               partner, SenderOf(req.From))
  IN  /\ req.pc \in { "expense_inserted", "expense_committing" }
      /\ CanCommit
      /\ expenses' = saved.table
      /\ inflight' = [inflight EXCEPT
                        ![i].pc = "done",
                        ![i].reply = Reply("recorded", partner, saved.ret, value, category)]
      /\ UNCHANGED << partners, parsed, text, extracted, classified, pages >>

\* save_expense, line 102, while the read the commit waits for goes on for
\* the busy timeout: the commit raises, nothing catches it and nothing
\* closes the connection, which is left with its failed commit
CommitExpenseLocked(i) ==
  /\ inflight[i].pc = "expense_committing"
  /\ ~CanCommit
  /\ inflight' = [inflight EXCEPT
                    ![i].pc = "done",
                    ![i].failed = "commit",
                    ![i].open = TRUE,
                    ![i].reply = Plain("error")]
  /\ UNCHANGED << partners, expenses, parsed, text, extracted, classified, pages >>

\* the connection save_expense left open is finalised once the interpreter
\* collects it: what its INSERT wrote is dropped with it
Finalize(i) ==
  /\ inflight[i].open
  /\ inflight' = [inflight EXCEPT ![i].open = FALSE]
  /\ UNCHANGED << partners, expenses, parsed, text, extracted, classified, pages >>

(***************************************************************************)
(* The pages.  dashboard() runs three SELECTs on one connection and        *)
(* export() one, each followed by the fetch of its rows; neither writes.   *)
(* The SELECTs of lines 251, 265 and 282 return a row where table expenses *)
(* holds one, the SUM of line 270 always returns one.  Between a SELECT    *)
(* that returned a row and the fetch of its rows the connection keeps the  *)
(* read lock; everywhere else a page request holds nothing, and is no      *)
(* part of the state.  A SELECT that finds readers kept out waits, and     *)
(* raises after the busy timeout (nothing catches it, Flask answers 500):  *)
(* either way it leaves the database and every other request as they are.  *)
(***************************************************************************)
\* the page reads in progress
PageCount == pages[252] + pages[266] + pages[271] + pages[283]

\* one more page request is about to run line `line`, or one fewer
PageMove(line, by) ==
  [ l \in PageFetches |-> IF l = line THEN pages[l] + by ELSE pages[l] ]

\* the SELECT of line `line` returns a row
ReturnsRow(line) == line = 270 \/ expenses # <<>>

\* dashboard(), lines 251, 265 and 270: the SELECT gets its lock and returns
\* a row, the fetch of the next line is still to come
DashboardSelect(line) ==
  /\ PageCount < MaxPages
  /\ CanRead
  /\ ReturnsRow(line)
  /\ pages' = PageMove(line + 1, 1)
  /\ UNCHANGED << partners, expenses, parsed, text, extracted, classified, inflight >>

\* dashboard(), lines 252, 266 and 271: the rows are fetched, the read is
\* over
DashboardFetch(line) ==
  /\ pages[line] > 0
  /\ pages' = PageMove(line, -1)
  /\ UNCHANGED << partners, expenses, parsed, text, extracted, classified, inflight >>

\* export(), line 282: the SELECT gets its lock and returns a row, the fetch
\* of line 283 is still to come
ExportSelect(line) ==
  /\ PageCount < MaxPages
  /\ CanRead
  /\ ReturnsRow(line)
  /\ pages' = PageMove(line + 1, 1)
  /\ UNCHANGED << partners, expenses, parsed, text, extracted, classified, inflight >>

\* export(), lines 283-284: the rows are fetched, the read is over
ExportFetch(line) ==
  /\ pages[line] > 0
  /\ pages' = PageMove(line, -1)
  /\ UNCHANGED << partners, expenses, parsed, text, extracted, classified, inflight >>

\* the rows of table partners an earlier run of the server left in the
\* database file: one sender is registered, the other is not
StoredPartners == { [phone |-> <<"+91-1">>, name |-> <<"A","l">>] }

\* no page read is in progress
NoPages == [ line \in PageFetches |-> 0 ]

\* the server starts on the database file of an earlier run: init_db creates
\* the tables only where they do not exist and leaves their rows alone
InitConcurrent ==
  /\ partners = StoredPartners
  /\ expenses = <<>>
  /\ parsed   = Parsed
  /\ text       = <<>>
  /\ extracted  = NotExtracted
  /\ classified = NotClassified
  /\ inflight   = <<>>
  /\ pages      = NoPages






(***************************************************************************)
(* Registrations under two names and an expense message, from both         *)
(* senders, while the pages are read.                                      *)
(***************************************************************************)
NextConcurrent ==
  \/ \E from \in Froms, body \in ConcurrentBodies : Arrive(from, body)
  \/ \E i \in DOMAIN inflight : InsertPartner(i)
  \/ \E i \in DOMAIN inflight : InsertPartnerLocked(i)
  \/ \E i \in DOMAIN inflight : CommitPartnerWait(i)
  \/ \E i \in DOMAIN inflight : CommitPartner(i)
  \/ \E i \in DOMAIN inflight : CommitPartnerLocked(i)
  \/ \E i \in DOMAIN inflight : ClosePartner(i)
  \/ \E i \in DOMAIN inflight : Select(i)
  \/ \E i \in DOMAIN inflight : SelectLocked(i)
  \/ \E i \in DOMAIN inflight : Fetch(i)
  \/ \E i \in DOMAIN inflight : InsertExpense(i)
  \/ \E i \in DOMAIN inflight : InsertExpenseLocked(i)
  \/ \E i \in DOMAIN inflight : CommitExpenseWait(i)
  \/ \E i \in DOMAIN inflight : CommitExpense(i)
  \/ \E i \in DOMAIN inflight : CommitExpenseLocked(i)
  \/ \E i \in DOMAIN inflight : Finalize(i)
  \/ \E line \in DashboardSelects : DashboardSelect(line)
  \/ \E line \in DashboardFetches : DashboardFetch(line)
  \/ \E line \in ExportSelects : ExportSelect(line)
  \/ \E line \in ExportFetches : ExportFetch(line)

SpecConcurrent == InitConcurrent /\ [][NextConcurrent]_vars

(***************************************************************************)
(* Expense messages only: with an amount, with the amount 0 and without a  *)
(* number.                                                                 *)
(***************************************************************************)
NextExpenses ==
  \/ \E from \in Froms, body \in ExpenseBodies : Arrive(from, body)
  \/ \E i \in DOMAIN inflight : Select(i)
  \/ \E i \in DOMAIN inflight : SelectLocked(i)
  \/ \E i \in DOMAIN inflight : Fetch(i)
  \/ \E i \in DOMAIN inflight : InsertExpense(i)
  \/ \E i \in DOMAIN inflight : InsertExpenseLocked(i)
  \/ \E i \in DOMAIN inflight : CommitExpenseWait(i)
  \/ \E i \in DOMAIN inflight : CommitExpense(i)
  \/ \E i \in DOMAIN inflight : CommitExpenseLocked(i)
  \/ \E i \in DOMAIN inflight : Finalize(i)
  \/ \E line \in DashboardSelects : DashboardSelect(line)
  \/ \E line \in DashboardFetches : DashboardFetch(line)
  \/ \E line \in ExportSelects : ExportSelect(line)
  \/ \E line \in ExportFetches : ExportFetch(line)

SpecExpenses == InitConcurrent /\ [][NextExpenses]_vars

(***************************************************************************)
(* The command word: with a name, without one, as the beginning of a       *)
(* longer word, and a message without it.  No message carries an amount,   *)
(* so table expenses stays empty, export() never holds a read lock, and    *)
(* of the pages only GET / is read.                                        *)
(***************************************************************************)
NextCommands ==
  \/ \E from \in Froms, body \in CommandBodies : Arrive(from, body)
  \/ \E i \in DOMAIN inflight : InsertPartner(i)
  \/ \E i \in DOMAIN inflight : InsertPartnerLocked(i)
  \/ \E i \in DOMAIN inflight : CommitPartnerWait(i)
  \/ \E i \in DOMAIN inflight : CommitPartner(i)
  \/ \E i \in DOMAIN inflight : CommitPartnerLocked(i)
  \/ \E i \in DOMAIN inflight : ClosePartner(i)
  \/ \E i \in DOMAIN inflight : Select(i)
  \/ \E i \in DOMAIN inflight : SelectLocked(i)
  \/ \E i \in DOMAIN inflight : Fetch(i)
  \/ \E line \in DashboardSelects : DashboardSelect(line)
  \/ \E line \in DashboardFetches : DashboardFetch(line)

SpecCommands == InitConcurrent /\ [][NextCommands]_vars

(***************************************************************************)
(* The messages of a sender with a record: the command word, a word that   *)
(* begins with its letters, an expense and a message without an amount,    *)
(* from both senders, while the pages are read.                            *)
(***************************************************************************)
NextAttempts ==
  \/ \E from \in Froms, body \in AttemptBodies : Arrive(from, body)
  \/ \E i \in DOMAIN inflight : InsertPartner(i)
  \/ \E i \in DOMAIN inflight : InsertPartnerLocked(i)
  \/ \E i \in DOMAIN inflight : CommitPartnerWait(i)
  \/ \E i \in DOMAIN inflight : CommitPartner(i)
  \/ \E i \in DOMAIN inflight : CommitPartnerLocked(i)
  \/ \E i \in DOMAIN inflight : ClosePartner(i)
  \/ \E i \in DOMAIN inflight : Select(i)
  \/ \E i \in DOMAIN inflight : SelectLocked(i)
  \/ \E i \in DOMAIN inflight : Fetch(i)
  \/ \E i \in DOMAIN inflight : InsertExpense(i)
  \/ \E i \in DOMAIN inflight : InsertExpenseLocked(i)
  \/ \E i \in DOMAIN inflight : CommitExpenseWait(i)
  \/ \E i \in DOMAIN inflight : CommitExpense(i)
  \/ \E i \in DOMAIN inflight : CommitExpenseLocked(i)
  \/ \E i \in DOMAIN inflight : Finalize(i)
  \/ \E line \in DashboardSelects : DashboardSelect(line)
  \/ \E line \in DashboardFetches : DashboardFetch(line)
  \/ \E line \in ExportSelects : ExportSelect(line)
  \/ \E line \in ExportFetches : ExportFetch(line)

SpecAttempts == InitConcurrent /\ [][NextAttempts]_vars

(***************************************************************************)
(* Vocabulary of the properties: a request and what it led to, in the      *)
(* terms of the specification.                                             *)
(***************************************************************************)
\* the sender of request i
Phone(i) == SenderOf(inflight[i].From)

\* request i has been answered
Answered(i) == inflight[i].pc = "done"

\* a statement of request i found the database locked and raised
Locked(i) == inflight[i].failed # "none"

\* the variant of ConversationResult a reply stands for ("None": the
\* handler raised, or no reply has been built yet)
Outcome(reply) ==
  CASE reply.template \in {"welcome", "registration_failed", "please_send_register"}
         -> "Registration"
    [] reply.template = "register_first" -> "Unregistered"
    [] reply.template = "no_amount"      -> "ParseError"
    [] reply.template = "recorded"       -> "Expense"
    [] OTHER                             -> "None"

\* request i was answered with the welcome
Welcomed(i) == inflight[i].reply.template = "welcome"

\* request i was answered with the confirmation of a recorded expense
Recorded(i) == inflight[i].reply.template = "recorded"

\* the whitespace-separated tokens a text begins with: its first token and the rest
Tokens(body) == split_maxsplit1(strip(body))

\* the text begins with the command word "register" as a word of its own
\* (in any case), whatever follows
HasCommandWord(body) ==
  /\ Len(Tokens(body)) >= 1
  /\ lower(Tokens(body)[1]) = REGISTER

\* "register <name>": the command word followed by at least one more token
WellFormedRegistration(body) ==
  /\ HasCommandWord(body)
  /\ Len(Tokens(body)) = 2

\* the remainder of the message after the command word, trimmed
NameIn(body) == strip(Tokens(body)[2])

\* for each message, whether it begins with the command word
CommandWord == [ body \in Bodies |-> HasCommandWord(body) ]

\* for each message, whether its trimmed text begins, in any case, with the
\* letters "register"
Prefixed == [ body \in Bodies |-> startswith(lower(strip(body)), REGISTER) ]

\* for each message, the name it asks to be registered under: {} unless it is
\* "register <name>"
NameAsked ==
  [ body \in Bodies |->
      IF WellFormedRegistration(body) THEN { NameIn(body) } ELSE {} ]

\* for each message, what extract_amount takes from it
AmountIn == [ body \in Bodies |-> extract_amount(strip(body)) ]

\* request i is a "register <name>" message
Registers(i) == NameAsked[inflight[i].Body] # {}

\* the rows table partners holds for a phone
RowsOf(phone) == { r \in partners : r.phone = phone }

\* the sender of request i had a partner record when the request arrived
WasRegistered(i) == inflight[i].prior # {}

\* request j arrived while request i was being handled
Overlap(i, j) == i \in inflight[j].met

\* no request arrived while another was being handled
SequentialRun == \A i \in DOMAIN inflight : inflight[i].met = {}

\* the step is one of request i: its arrival, or a step of its thread
Step(i) ==
  /\ i \in DOMAIN inflight'
  /\ i \in DOMAIN inflight => inflight'[i] # inflight[i]

\* the step is the one in which request i is answered
Answers(i) ==
  /\ Step(i)
  /\ inflight'[i].pc = "done"
  /\ i \in DOMAIN inflight => inflight[i].pc # "done"

(***************************************************************************)
(* C1.  A sender without a partner record that sends anything other than a *)
(* registration command (a message that does not begin with the word       *)
(* "register") gets the Unregistered outcome, and no step of the request   *)
(* changes either table.  Stated as the claim states it, for the requests  *)
(* the database does not turn down.  The handler takes the registration    *)
(* branch on the first eight letters alone, so "registered 50" from a      *)
(* sender without a record registers that sender under the name "50".      *)
(***************************************************************************)
C1_UnregisteredShortCircuit ==
  [][ \A i \in DOMAIN inflight' :
        (/\ Step(i)
         /\ ~CommandWord[inflight'[i].Body]
         /\ SelectName(partners, SenderOf(inflight'[i].From)) = {}
         /\ inflight'[i].failed = "none")
          => /\ partners' = partners
             /\ expenses' = expenses
             /\ Answers(i) => Outcome(inflight'[i].reply) = "Unregistered" ]_vars

(***************************************************************************)
(* C2.  A well-formed "register <name>" that the database does not turn    *)
(* down is answered with the welcome for <name>, and as it is answered     *)
(* table partners holds exactly one row for the sender, with that name:    *)
(* for a sender without a record as for one that had another name before.  *)
(***************************************************************************)
C2_RegisterBindsName ==
  [][ \A i \in DOMAIN inflight' :
        (/\ Answers(i)
         /\ NameAsked[inflight'[i].Body] # {}
         /\ inflight'[i].failed = "none")
          => LET sender == SenderOf(inflight'[i].From)
             IN  /\ inflight'[i].reply.template = "welcome"
                 /\ NameAsked[inflight'[i].Body] = { inflight'[i].reply.name }
                 /\ { r \in partners' : r.phone = sender }
                      = { [phone |-> sender, name |-> inflight'[i].reply.name] } ]_vars

\* a sender registered under one name has registered under another: one
\* row, with the new name
C2_Witness ==
  \E i \in DOMAIN inflight :
    /\ Registers(i)
    /\ Welcomed(i)
    /\ WasRegistered(i)
    /\ inflight[i].prior # NameAsked[inflight[i].Body]
    /\ RowsOf(Phone(i)) = { [phone |-> Phone(i), name |-> inflight[i].reply.name] }

(***************************************************************************)
(* C3.  Every message of a sender with a record is treated as an expense   *)
(* attempt and ends as Expense or ParseError, never as Registration and    *)
(* never as Unregistered.  Stated for the messages that are not the        *)
(* registration command (the command word "register", which the            *)
(* re-registration rule of C2 and C8 governs) and for the requests the     *)
(* database does not turn down.  A message whose first word only begins    *)
(* with the letters "register" is handled as a registration (line 116).    *)
(***************************************************************************)
C3_AlwaysExpenseAttempt ==
  \A i \in DOMAIN inflight :
    (Answered(i) /\ WasRegistered(i) /\ ~CommandWord[inflight[i].Body] /\ ~Locked(i))
      => Outcome(inflight[i].reply) \in {"Expense", "ParseError"}

(***************************************************************************)
(* C4.  For a registered sender and an expense attempt, the outcome is an  *)
(* Expense carrying the extracted amount exactly when the extractor finds  *)
(* a value, the value 0 included, and ParseError exactly when it finds     *)
(* none.  Stated as the claim states it, for the requests the database     *)
(* does not turn down.  `if not amount` sends the value 0.0 to the "Could  *)
(* not find amount" reply.                                                 *)
(***************************************************************************)
C4_ExpenseIffAmountFound ==
  \A i \in DOMAIN inflight :
    (Answered(i) /\ WasRegistered(i) /\ ~CommandWord[inflight[i].Body] /\ ~Locked(i))
      => LET found == AmountIn[inflight[i].Body]
             reply == inflight[i].reply
         IN  /\ (found # {}) <=> (Outcome(reply) = "Expense" /\ found = { reply.amount })
             /\ (found = {}) <=> (Outcome(reply) = "ParseError")

(***************************************************************************)
(* C5.  The command word "register" with no name after it is answered with *)
(* a failed Registration as it arrives, and table partners is what it was  *)
(* before, for a sender with a record as for one without.                  *)
(***************************************************************************)
C5_RegisterWithoutName ==
  [][ \A i \in DOMAIN inflight' :
        (/\ Step(i)
         /\ CommandWord[inflight'[i].Body]
         /\ NameAsked[inflight'[i].Body] = {})
          => /\ Answers(i)
             /\ inflight'[i].reply = Plain("please_send_register")
             /\ Outcome(inflight'[i].reply) = "Registration"
             /\ partners' = partners ]_vars

\* a registered sender has sent the bare command word and keeps its record
C5_Witness ==
  \E i \in DOMAIN inflight :
    /\ CommandWord[inflight[i].Body]
    /\ NameAsked[inflight[i].Body] = {}
    /\ inflight[i].reply.template = "please_send_register"
    /\ WasRegistered(i)
    /\ SelectName(partners, Phone(i)) = inflight[i].prior

(***************************************************************************)
(* C6.  No exception leaves the handler whatever step of the database      *)
(* fails, and a lookup that fails counts as "no record": the reply is the  *)
(* Unregistered one.  Stated as the claim states it.  get_partner and      *)
(* save_expense catch nothing, so a SELECT that finds the database locked  *)
(* leaves webhook as an exception and no reply is built.                   *)
(***************************************************************************)
C6_NoExceptionEscapes ==
  \A i \in DOMAIN inflight :
    Answered(i)
      => /\ inflight[i].reply.template # "error"
         /\ Outcome(inflight[i].reply) # "None"
         /\ (inflight[i].failed = "select") => (Outcome(inflight[i].reply) = "Unregistered")

(***************************************************************************)
(* C7.  When the INSERT OR REPLACE of a well-formed "register <name>" (or  *)
(* its commit) fails, the reply is the failed Registration, no exception   *)
(* leaves the handler, and no step of the request changes table partners:  *)
(* it holds for the sender no row, or the row with the old name, as        *)
(* before.                                                                 *)
(***************************************************************************)
C7_UpsertFailure ==
  [][ \A i \in DOMAIN inflight' :
        (/\ Step(i)
         /\ NameAsked[inflight'[i].Body] # {}
         /\ inflight'[i].failed # "none")
          => /\ partners' = partners
             /\ inflight'[i].reply.template # "error"
             /\ Answers(i) => inflight'[i].reply = Plain("registration_failed") ]_vars

\* the upsert of a registered sender's new name has failed: the old name stays
C7_Witness ==
  \E i \in DOMAIN inflight :
    /\ Registers(i)
    /\ Locked(i)
    /\ inflight[i].reply = Plain("registration_failed")
    /\ WasRegistered(i)
    /\ inflight[i].prior # NameAsked[inflight[i].Body]
    /\ SelectName(partners, Phone(i)) = inflight[i].prior

(***************************************************************************)
(* C8.  A sender registered under a name that sends the registration of    *)
(* the same name again is welcomed again, where the database does not      *)
(* turn the request down, and table partners is what it was after the      *)
(* first registration.                                                     *)
(***************************************************************************)
C8_ReRegistrationIdempotent ==
  [][ \A i \in DOMAIN inflight' :
        (/\ Answers(i)
         /\ NameAsked[inflight'[i].Body] # {}
         /\ SelectName(partners, SenderOf(inflight'[i].From)) = NameAsked[inflight'[i].Body]
         /\ inflight'[i].failed = "none")
          => /\ inflight'[i].reply.template = "welcome"
             /\ NameAsked[inflight'[i].Body] = { inflight'[i].reply.name }
             /\ partners' = partners ]_vars

\* a sender was welcomed under a name, then sent the registration of that
\* name again and was welcomed again: one row, with that name
C8_Witness ==
  \E i, j \in DOMAIN inflight :
    /\ i < j
    /\ ~Overlap(i, j)
    /\ Phone(i) = Phone(j)
    /\ Registers(i) /\ Registers(j)
    /\ NameAsked[inflight[i].Body] = NameAsked[inflight[j].Body]
    /\ Welcomed(i) /\ Welcomed(j)
    /\ inflight[j].prior = NameAsked[inflight[j].Body]
    /\ RowsOf(Phone(j)) = { [phone |-> Phone(j), name |-> inflight[j].reply.name] }

(***************************************************************************)
(* C9.  Only a message that begins with the word "register" gets a         *)
(* Registration outcome, a name is stored only for the command word        *)
(* followed by a name, the stored name is the trimmed remainder after the  *)
(* command word, and a message whose first token merely starts with the    *)
(* letters (as "registered 50") stores nothing.  Stated as the claim       *)
(* states it.  The handler tests msg.lower().startswith('register') and    *)
(* stores what follows the first token, whatever that token is.            *)
(***************************************************************************)
C9_CommandWordOnly ==
  /\ \A i \in DOMAIN inflight :
        Answered(i)
          => /\ (Outcome(inflight[i].reply) = "Registration") => CommandWord[inflight[i].Body]
             /\ Welcomed(i) => NameAsked[inflight[i].Body] = { inflight[i].reply.name }
  /\ \A r \in partners \ StoredPartners :
        \E i \in DOMAIN inflight :
           /\ Phone(i) = r.phone
           /\ NameAsked[inflight[i].Body] = { r.name }

(***************************************************************************)
(* C10, as claimed.  The description of a recorded expense is the Body     *)
(* value of the request character for character, leading and trailing      *)
(* whitespace included.  The handler strips the Body before anything else, *)
(* so this fails for a padded message.                                     *)
(***************************************************************************)
C10_DescriptionIsRawBody ==
  \A i \in DOMAIN inflight :
    Recorded(i)
      => expenses[inflight[i].reply.eid].description = inflight[i].Body

(***************************************************************************)
(* C10, amended.  The description of a recorded expense is the Body value  *)
(* without its leading and trailing whitespace and otherwise character for *)
(* character: case and inner characters as sent, not the matched amount    *)
(* and not a lower-cased form.                                             *)
(***************************************************************************)
C10_DescriptionIsTrimmedBody ==
  \A i \in DOMAIN inflight :
    Recorded(i)
      => /\ inflight[i].reply.eid \in DOMAIN expenses
         /\ expenses[inflight[i].reply.eid].description = strip(inflight[i].Body)

\* a padded message with an upper-case letter has been recorded
C10_Witness ==
  \E i \in DOMAIN inflight :
    /\ Recorded(i)
    /\ strip(inflight[i].Body) # inflight[i].Body
    /\ lower(inflight[i].Body) # inflight[i].Body
    /\ expenses[inflight[i].reply.eid].description = <<"T","e","a"," ","1","2",".","5","0">>

(***************************************************************************)
(* C11.  Of a text that holds a number with a currency marker (the symbol, *)
(* Rs, Rs. or INR before it, or rs, rupees, inr or the symbol after it)    *)
(* and an unrelated number without one, at whatever position, extract      *)
(* returns the marked number; the number without a marker is returned only *)
(* for a text that holds no marked number.  Stated as the claim states it. *)
(* The patterns are tried in order over the whole text and carry no word   *)
(* boundary, so the marker that follows one number is read as the marker   *)
(* in front of the next ("500 rs 2 days" gives 2), and the end of a word   *)
(* is read as a marker ("chairs 12, paid INR 500" gives 12).               *)
(***************************************************************************)
C11_CurrencyMarkedWins ==
  extracted.done
    => \A s \in PrioritySamples : (s.text = text) => (extracted.value = { s.value })

(***************************************************************************)
(* Vocabulary of the classifier's properties: the closed category set in   *)
(* its priority order, and a keyword occurring in a text in any case.      *)
(***************************************************************************)
PriorityOrder ==
  << "rent", "travel", "food", "partner_loan", "business_purchase", "client_acquisition" >>

CategorySet == Range(PriorityOrder) \cup { "uncategorized" }

\* the keywords the table lists for the category named c
KeywordsOf(c) ==
  UNION { Range(CATEGORIES[i].keywords) : i \in { j \in DOMAIN CATEGORIES : CATEGORIES[j].cat = c } }

\* kw occurs in t as a substring, case ignored
Occurs(kw, t) ==
  \E i \in 1..(Len(t) - Len(kw) + 1) : lower(SubSeq(t, i, i + Len(kw) - 1)) = lower(kw)

\* some keyword of the category named c occurs in t
Matches(c, t) == \E kw \in KeywordsOf(c) : Occurs(kw, t)

(***************************************************************************)
(* C12.  classify returns one member of the closed category set: the       *)
(* category that comes first in the order rent, travel, food,              *)
(* partner_loan, business_purchase, client_acquisition among those with a  *)
(* keyword occurring in the text in any case, and uncategorized exactly    *)
(* when no keyword of any category occurs.                                 *)
(***************************************************************************)
C12_EarliestMatchingCategory ==
  classified.done
    => /\ classified.value \in CategorySet
       /\ (classified.value = "uncategorized")
            <=> (\A k \in DOMAIN PriorityOrder : ~Matches(PriorityOrder[k], text))
       /\ \A k \in DOMAIN PriorityOrder :
            (classified.value = PriorityOrder[k])
              <=> /\ Matches(PriorityOrder[k], text)
                  /\ \A j \in 1..(k - 1) : ~Matches(PriorityOrder[j], text)

\* a text with keywords of two categories, the one of the earlier category
\* written with an upper-case letter, has been given the earlier category
C12_Witness ==
  /\ classified.done
  /\ Matches("food", text)
  /\ Matches("client_acquisition", text)
  /\ \A kw \in KeywordsOf("food") : ~Contains(text, kw)
  /\ classified.value = "food"

(***************************************************************************)
(* C13.  Whatever the database does, each request changes the tables only  *)
(* as its outcome says.  Table partners changes only in the step that      *)
(* answers a registration with the welcome, and then by the sender's own   *)
(* row being created or overwritten with the welcomed name; no phone ever  *)
(* loses its row, so a sender that was registered is still found by the    *)
(* lookup.  Table expenses changes only in the step that answers a         *)
(* request with an Expense outcome: exactly one row is appended, the one   *)
(* the reply names, and table partners stays as it was.  So the requests   *)
(* that end as Unregistered, ParseError or failed Registration, or with    *)
(* an exception, change neither table.                                     *)
(***************************************************************************)
C13_OutcomeFrame ==
  [][ /\ (partners' # partners)
           => \E i \in DOMAIN inflight' :
                 /\ Answers(i)
                 /\ inflight'[i].reply.template = "welcome"
                 /\ partners' = { r \in partners : r.phone # SenderOf(inflight'[i].From) }
                                  \cup { [phone |-> SenderOf(inflight'[i].From),
                                          name  |-> inflight'[i].reply.name] }
                 /\ expenses' = expenses
      /\ \A r \in partners :
            /\ \E q \in partners' : q.phone = r.phone
            /\ ~NotPartner(SelectName(partners', r.phone))
      /\ (expenses' # expenses)
           => \E i \in DOMAIN inflight' :
                 /\ Answers(i)
                 /\ Outcome(inflight'[i].reply) = "Expense"
                 /\ inflight'[i].reply.eid = Len(expenses')
                 /\ partners' = partners
      /\ Len(expenses') \in { Len(expenses), Len(expenses) + 1 }
      /\ SubSeq(expenses', 1, Len(expenses)) = expenses
      /\ \A i \in DOMAIN inflight' :
            Answers(i)
              => /\ (inflight'[i].reply.template = "welcome")
                      \/ (partners' = partners)
                 /\ (Outcome(inflight'[i].reply) = "Expense")
                      <=> (Len(expenses') = Len(expenses) + 1) ]_vars

\* both senders have a row, one of them under the second name it registered
\* under in this run: the other's row is the stored one
C13_Witness ==
  \E i, j \in DOMAIN inflight :
    /\ i < j
    /\ Phone(i) = Phone(j)
    /\ Welcomed(i) /\ Welcomed(j)
    /\ inflight[i].reply.name # inflight[j].reply.name
    /\ partners = StoredPartners \cup { [phone |-> Phone(j), name |-> inflight[j].reply.name] }
    /\ Cardinality(partners) = 2

(***************************************************************************)
(* C16.  Of a text whose only number carries no currency marker, extract   *)
(* returns that number with its fraction of two digits where it has one    *)
(* ("lunch 12.50" gives 12.50, 1250 hundredths) and with its thousands     *)
(* separators removed ("5,000" gives what "5000" gives).  Stated as the    *)
(* claim states it.  The last pattern is \b([\d,]+)\b, without the         *)
(* fraction the other four patterns have, so the match ends at the dot:    *)
(* "lunch 12.50" gives 12, and "0.05" gives 0.                             *)
(***************************************************************************)
C16_BareNumberWithFraction ==
  extracted.done
    => \A s \in NumberSamples : (s.text = text) => (extracted.value = { s.value })

(***************************************************************************)
(* C19.  Each keyword of the table, taken as a text of its own, is given   *)
(* the category it is listed under.  Stated as the claim states it.  The   *)
(* keyword "business development" of client_acquisition holds the keyword  *)
(* "bus" of travel, which comes earlier in the table.                      *)
(***************************************************************************)
C19_EveryKeywordEffective ==
  classified.done
    => \A s \in KeywordSamples : (s.text = text) => (classified.value = s.cat)

(***************************************************************************)
(* C14.  Registrations of one sender handled side by side, as the claim    *)
(* states it: each, once answered, was answered with the welcome for its   *)
(* own name; table partners never holds two rows for a phone; and when two *)
(* of them, with names A and B, are the sender's only registrations and    *)
(* both are answered, the table holds exactly one row for the sender, and  *)
(* its name is A or B.  A registration whose INSERT or commit finds the    *)
(* database locked by another request for the busy timeout is answered     *)
(* with "Registration failed", and writes nothing.                         *)
(***************************************************************************)
C14_ConcurrentRegistrations ==
  /\ \A i \in DOMAIN inflight :
        (Registers(i) /\ Answered(i))
          => /\ Welcomed(i)
             /\ NameAsked[inflight[i].Body] = { inflight[i].reply.name }
  /\ \A r \in partners : Cardinality(RowsOf(r.phone)) = 1
  /\ \A i, j \in DOMAIN inflight :
        (/\ i < j
         /\ Registers(i) /\ Registers(j)
         /\ Phone(i) = Phone(j)
         /\ Answered(i) /\ Answered(j)
         /\ \A k \in DOMAIN inflight \ {i, j} : ~(Registers(k) /\ Phone(k) = Phone(i)))
          => \E n \in NameAsked[inflight[i].Body] \cup NameAsked[inflight[j].Body] :
                RowsOf(Phone(i)) = { [phone |-> Phone(i), name |-> n] }

(***************************************************************************)
(* C14, amended.  Each registration, once answered, was answered with the  *)
(* welcome for its own name, unless the database stayed locked, by another *)
(* request or by a page being read, for the busy timeout: then it was      *)
(* answered with "Registration failed".  Table                             *)
(* partners never holds two rows for a phone.  When two registrations,     *)
(* with names A and B, are the sender's only ones and both are answered,   *)
(* the table holds exactly one row for the sender, under the name of one   *)
(* that was welcomed, where one was; where both failed, the table holds    *)
(* for the sender what it held before them.                                *)
(***************************************************************************)
C14_ConcurrentRegistrationsUnlessLocked ==
  /\ \A i \in DOMAIN inflight :
        (Registers(i) /\ Answered(i))
          => IF Locked(i)
               THEN inflight[i].reply = Plain("registration_failed")
               ELSE /\ Welcomed(i)
                    /\ NameAsked[inflight[i].Body] = { inflight[i].reply.name }
  /\ \A r \in partners : Cardinality(RowsOf(r.phone)) = 1
  /\ \A i, j \in DOMAIN inflight :
        (/\ i < j
         /\ Registers(i) /\ Registers(j)
         /\ Phone(i) = Phone(j)
         /\ Answered(i) /\ Answered(j)
         /\ \A k \in DOMAIN inflight \ {i, j} : ~(Registers(k) /\ Phone(k) = Phone(i)))
          => LET won == { inflight[k].reply.name : k \in { m \in {i, j} : Welcomed(m) } }
             IN  IF won = {}
                   THEN RowsOf(Phone(i)) = { r \in StoredPartners : r.phone = Phone(i) }
                   ELSE \E n \in won : RowsOf(Phone(i)) = { [phone |-> Phone(i), name |-> n] }

\* two registrations of one sender under different names overlapped: the
\* one that arrived first was welcomed, the other found the database locked
\* and failed, and the row holds the name of the first
C14_Witness ==
  \E i, j \in DOMAIN inflight :
    /\ i < j
    /\ Registers(i) /\ Registers(j)
    /\ Phone(i) = Phone(j)
    /\ NameAsked[inflight[i].Body] # NameAsked[inflight[j].Body]
    /\ Overlap(i, j)
    /\ Welcomed(i)
    /\ Locked(j)
    /\ inflight[j].reply = Plain("registration_failed")
    /\ { r.name : r \in RowsOf(Phone(i)) } = NameAsked[inflight[i].Body]
    /\ RowsOf(Phone(i)) \cap StoredPartners = {}

(***************************************************************************)
(* C15.  The partner name of a recorded expense, in the row and in the     *)
(* reply, is the name table partners held for the sender when the          *)
(* request's own lookup ran, whatever registrations of the sender commit   *)
(* before or after that lookup; it is a name the sender was registered     *)
(* under, by a welcomed registration or in the stored table; and in a run  *)
(* without overlap it is the name of the sender's latest welcomed          *)
(* registration before the expense message, or the stored name where       *)
(* there is none.                                                          *)
(***************************************************************************)
C15_OwnLookup ==
  \A e \in DOMAIN inflight :
    Recorded(e)
      => /\ inflight[e].reply.eid \in DOMAIN expenses
         /\ LET row    == expenses[inflight[e].reply.eid]
                stored == [phone |-> Phone(e), name |-> row.partner_name] \in StoredPartners
                before == { r \in 1..(e - 1) : Phone(r) = Phone(e) /\ Welcomed(r) }
            IN  /\ row.partner_phone = Phone(e)
                /\ inflight[e].seen = { row.partner_name }
                /\ inflight[e].reply.name = row.partner_name
                /\ \/ stored
                   \/ \E r \in DOMAIN inflight :
                         /\ Phone(r) = Phone(e)
                         /\ Welcomed(r)
                         /\ inflight[r].reply.name = row.partner_name
                /\ SequentialRun
                     => IF before = {} THEN stored
                        ELSE \E r \in before :
                                /\ inflight[r].reply.name = row.partner_name
                                /\ \A q \in before : q <= r

\* an expense was recorded under the name its own lookup read, although a
\* registration of the sender under another name had committed by the time
\* the row was inserted
C15_Witness ==
  \E e \in DOMAIN inflight :
    /\ Recorded(e)
    /\ inflight[e].current # inflight[e].seen
    /\ inflight[e].seen = { expenses[inflight[e].reply.eid].partner_name }
    /\ SelectName(partners, Phone(e)) # inflight[e].seen

(***************************************************************************)
(* C17.  Under any interleaving of requests of any senders, every row of   *)
(* table expenses carries the phone of a sender that has a row in table    *)
(* partners, and a partner name that is not empty.                         *)
(***************************************************************************)
C17_ExpensesOfRegisteredSenders ==
  \A k \in DOMAIN expenses :
    /\ RowsOf(expenses[k].partner_phone) # {}
    /\ expenses[k].partner_name # <<>>

\* while one sender's expense is recorded, the expense message of a sender
\* without a row in table partners was turned away, and no row carries that
\* sender's phone
C17_Witness ==
  \E e, u \in DOMAIN inflight :
    /\ Recorded(e)
    /\ inflight[u].reply.template = "register_first"
    /\ RowsOf(Phone(u)) = {}
    /\ \A k \in DOMAIN expenses : expenses[k].partner_phone # Phone(u)

(***************************************************************************)
(* C18.  Under any interleaving of expense messages, every row of table    *)
(* expenses has an amount greater than zero, and a message from which      *)
(* extract_amount takes 0, or nothing, is never answered with the          *)
(* confirmation of a recorded expense and never reaches save_expense.      *)
(***************************************************************************)
C18_PositiveAmounts ==
  /\ \A k \in DOMAIN expenses : expenses[k].amount > 0
  /\ \A i \in DOMAIN inflight :
        (AmountIn[inflight[i].Body] \subseteq { 0 })
          => /\ ~Recorded(i)
             /\ inflight[i].pc \notin { "save", "expense_inserted" }
             /\ \A k \in DOMAIN expenses : expenses[k].description # strip(inflight[i].Body)

\* while a registered sender's expense was being handled, and was recorded
\* with its amount, the same sender's "paid 0" arrived: the amount 0 was
\* extracted and the message was answered with the ParseError reply
C18_Witness ==
  \E e, z \in DOMAIN inflight :
    /\ Recorded(e)
    /\ expenses[inflight[e].reply.eid].amount > 0
    /\ Phone(z) = Phone(e)
    /\ Overlap(e, z)
    /\ AmountIn[inflight[z].Body] = { 0 }
    /\ inflight[z].reply = Plain("no_amount")

====
